---- MODULE Spec2Model ----
EXTENDS Integers, Sequences, FiniteSets, TLC

(* Model of src/music.py: the three-step Streamlit wizard (main), the     *)
(* upload / generation clients (MusicProcessor) and the lyrics formatter. *)
(* Text is a sequence of one-character strings.  None is NULL.            *)

NULL == "None"

(* Python str.strip() / str.isspace(): every Unicode whitespace character. *)
(* Characters without a TLA+ string literal are written by code point.     *)
IsWs(c) ==
  c \in {" ", "\t", "\n", "\r", "\f",
         "U+000B", "U+001C", "U+001D", "U+001E", "U+001F", "U+0085", "U+00A0",
         "U+1680", "U+2000", "U+2001", "U+2002", "U+2003", "U+2004", "U+2005",
         "U+2006", "U+2007", "U+2008", "U+2009", "U+200A", "U+2028", "U+2029",
         "U+202F", "U+205F", "U+3000"}

RECURSIVE LStrip(_)
LStrip(s) == IF s # <<>> /\ IsWs(Head(s)) THEN LStrip(Tail(s)) ELSE s

RECURSIVE RStrip(_)
RStrip(s) == IF s # <<>> /\ IsWs(s[Len(s)]) THEN RStrip(SubSeq(s, 1, Len(s) - 1)) ELSE s

PyStrip(s) == RStrip(LStrip(s))

(* Python s.split('\n') *)
RECURSIVE SplitNL(_)
SplitNL(s) ==
  IF \E i \in 1..Len(s) : s[i] = "\n"
  THEN LET i == CHOOSE k \in 1..Len(s) : s[k] = "\n" /\ \A j \in 1..(k - 1) : s[j] # "\n"
       IN <<SubSeq(s, 1, i - 1)>> \o SplitNL(SubSeq(s, i + 1, Len(s)))
  ELSE <<s>>

(* Python "\n".join(ls) *)
RECURSIVE JoinNL(_)
JoinNL(ls) ==
  IF ls = <<>> THEN <<>>
  ELSE IF Len(ls) = 1 THEN Head(ls)
  ELSE Head(ls) \o <<"\n">> \o JoinNL(Tail(ls))

NonBlank(l) == PyStrip(l) # <<>>

StripEach(ls) == [i \in 1..Len(ls) |-> PyStrip(ls[i])]

Sentinel == <<"#", "#">>

(* Variant without the blank-line filter. *)
format_lyrics_for_minimax_mut(lyrics) ==
  LET lines == SplitNL(PyStrip(lyrics))
  IN Sentinel \o JoinNL(StripEach(lines)) \o Sentinel

format_lyrics_for_minimax(lyrics) ==
  LET lines == SplitNL(PyStrip(lyrics))
  IN Sentinel \o JoinNL(StripEach(SelectSeq(lines, NonBlank))) \o Sentinel

(* ---------------- external services (nondeterministic outcomes) ---------------- *)

(* download_audio_from_youtube: every exception is caught and gives None. *)
FetchOutcomes == {"ok", "fail"}

(* Upload endpoint responses:                                              *)
(*   ok_id     2xx, JSON object with the assigned id field                 *)
(*   ok_noid   2xx, non-empty JSON object without the id field             *)
(*   ok_empty  2xx, empty JSON object {}                                   *)
(*   http_err  non-2xx (raise_for_status -> HTTPError, a RequestException) *)
(*   net_err   connection error / timeout (RequestException)               *)
(*   open_fail open(file_path) raises OSError, not a RequestException      *)
UploadResp == {"ok_id", "ok_noid", "ok_empty", "http_err", "net_err", "open_fail"}

ServerVoiceId == "v1"
ServerInstId == "i1"

IdField(purpose) == IF purpose = "voice" THEN "voice_id" ELSE "instrumental_id"
IdValue(purpose) == IF purpose = "voice" THEN ServerVoiceId ELSE ServerInstId

EmptyDict == [k \in {} |-> NULL]

(* Variant without raise_for_status: an error status returns its JSON body. *)
upload_audio_mut(r, purpose) ==
  CASE r = "ok_id"     -> [kind |-> "dict", body |-> [k \in {IdField(purpose)} |-> IdValue(purpose)]]
    [] r = "ok_noid"   -> [kind |-> "dict", body |-> [k \in {"base_resp"} |-> "status"]]
    [] r = "ok_empty"  -> [kind |-> "dict", body |-> EmptyDict]
    [] r = "http_err"  -> [kind |-> "dict", body |-> [k \in {"base_resp"} |-> "error"]]
    [] r = "net_err"   -> [kind |-> "none", body |-> EmptyDict]
    [] r = "open_fail" -> [kind |-> "raise", body |-> EmptyDict]

(* MusicProcessor.upload_audio: kind "dict" (returned JSON), "none" or "raise". *)
upload_audio(r, purpose) ==
  CASE r = "ok_id"     -> [kind |-> "dict", body |-> [k \in {IdField(purpose)} |-> IdValue(purpose)]]
    [] r = "ok_noid"   -> [kind |-> "dict", body |-> [k \in {"base_resp"} |-> "status"]]
    [] r = "ok_empty"  -> [kind |-> "dict", body |-> EmptyDict]
    [] r = "http_err"  -> [kind |-> "none", body |-> EmptyDict]
    [] r = "net_err"   -> [kind |-> "none", body |-> EmptyDict]
    [] r = "open_fail" -> [kind |-> "raise", body |-> EmptyDict]

(* Python truthiness of a returned value (None or dict). *)
Truthy(res) == res.kind = "dict" /\ DOMAIN res.body # {}

(* dict.get(key) *)
DictGet(d, k) == IF k \in DOMAIN d THEN d[k] ELSE NULL

(* Generation endpoint responses:                                           *)
(*   ok_hex     2xx, data.audio a valid non-empty hex string                *)
(*   bad_hex    2xx, data.audio not valid hex (caught by the inner except)  *)
(*   no_audio   2xx, data object without audio                              *)
(*   data_null  2xx, data is null: 'audio' in None raises TypeError          *)
(*   http_err   non-2xx (RequestException)                                  *)
(*   net_err    connection error / timeout (RequestException)               *)
GenResp == {"ok_hex", "bad_hex", "no_audio", "data_null", "http_err", "net_err"}

DefaultAudioSettingMut == [sample_rate |-> 44100, bitrate |-> 128000, format |-> "mp3"]

DefaultAudioSetting == [sample_rate |-> 44100, bitrate |-> 256000, format |-> "mp3"]

GenPayload(voice, inst, lyr) ==
  [refer_voice |-> voice, refer_instrumental |-> inst, lyrics |-> lyr,
   model |-> "music-01", stream |-> FALSE, audio_setting |-> DefaultAudioSetting]

(* MusicProcessor.generate_music: whether the POST is issued, and the result kind. *)
GenSends(lyr) == lyr # <<>>

generate_music(lyr, r) ==
  IF ~GenSends(lyr) THEN "none"
  ELSE CASE r = "ok_hex"    -> "bytes"
         [] r = "bad_hex"   -> "none"
         [] r = "no_audio"  -> "none"
         [] r = "data_null" -> "raise"
         [] r = "http_err"  -> "none"
         [] r = "net_err"   -> "none"

(* get_binary_file_downloader_html: MIME type of the data-URI download link. *)
get_binary_file_downloader_html_mime(fmt) == "audio/mp3"

OutputFormats == {"mp3", "wav"}

(* ---------------- user inputs (text widgets) ---------------- *)

LineOneLineTwo == <<"l","i","n","e"," ","o","n","e","\n","l","i","n","e"," ","t","w","o">>
BlankText == <<" ", "\n", " ">>
LyricsInputs == {LineOneLineTwo, BlankText, <<>>}
ManualIdInputs == {"v1", "i1", ""}

NoReq == [refer_voice |-> NULL, refer_instrumental |-> NULL, lyrics |-> <<>>,
          model |-> NULL, stream |-> FALSE, audio_setting |-> DefaultAudioSetting]
NoArt == [fmt |-> NULL, suffix |-> NULL, mime |-> NULL]

VARIABLES step, voice_id, instrumental_id, lyrics, manual,
          act, resp, outcome, sent, sentIn, artifact,
          entered, reported, nextSeen, ltext, lout, ldone

wvars == <<step, voice_id, instrumental_id, lyrics, manual, act, resp, outcome, sent, sentIn, artifact, entered, reported, nextSeen>>
lvars == <<ltext, lout, ldone>>
vars == <<wvars, lvars>>

WInit ==
  /\ step = 1
  /\ voice_id = NULL
  /\ instrumental_id = NULL
  /\ lyrics = <<>>
  /\ manual = FALSE
  /\ act = "init"
  /\ resp = "none"
  /\ outcome = "none"
  /\ sent = NoReq
  /\ sentIn = <<>>
  /\ artifact = NoArt
  /\ entered = <<NULL, NULL>>
  /\ reported = FALSE
  /\ nextSeen = FALSE

LInitIdle ==
  /\ ltext = <<>>
  /\ lout = <<>>
  /\ ldone = FALSE

Init == WInit /\ LInitIdle

(* st.session_state.step += 1 *)
Advance(s) == s + 1

(* A script run of main.  A user interaction while the script runs makes  *)
(* the next st.* call raise RerunException, ending the run there; the run  *)
(* may also carry a merged "Next Step" trigger (coalesce_widget_states     *)
(* keeps every True button trigger).  Where the run stops:                  *)
(*   "none"    it runs to the end                                           *)
(*   "before"  before the handler's external calls (st.spinner)             *)
(*   "handler" at the handler's first st.success / st.error call            *)
(*   "button"  at st.button("Next Step") after the handler                  *)
Stops == {"none", "before", "handler", "button"}

(* Trailing 'if st.button("Next Step"): st.session_state.step += 1' of the *)
(* Step 1 / Step 2 branch: it runs when the trigger is set and the run       *)
(* gets past the button call.                                                *)
NextRan(merged, stop) == merged /\ stop = "none"

ApplyNext(s, merged, stop) == IF NextRan(merged, stop) THEN Advance(s) ELSE s

(* Step 1: the "Use manual IDs" checkbox (a widget change reruns the script). *)
(* nextSeen: a "Next Step" increment ran in this script run.                 *)
ToggleManual ==
  /\ step = 1
  /\ manual' = ~manual
  /\ \E merged \in BOOLEAN, stop \in {"none", "button"} :
       /\ step' = ApplyNext(step, merged, stop)
       /\ nextSeen' = NextRan(merged, stop)
  /\ act' = "ToggleManual" /\ resp' = "none" /\ outcome' = "none"
  /\ reported' = FALSE
  /\ artifact' = NoArt
  /\ UNCHANGED <<voice_id, instrumental_id, lyrics, sent, sentIn, entered, lvars>>

(* Step 1, manual mode: "Confirm IDs".  The ids are stored, then st.success *)
(* (a rerun point) runs before step = 3; then the "Next Step" check.        *)
ConfirmIDs ==
  /\ step = 1 /\ manual
  /\ \E v \in ManualIdInputs, i \in ManualIdInputs, merged \in BOOLEAN, stop \in Stops :
       IF stop = "before"
       THEN /\ outcome' = "interrupted" /\ nextSeen' = FALSE
            /\ UNCHANGED <<step, voice_id, instrumental_id, entered>>
       ELSE /\ voice_id' = v
            /\ instrumental_id' = i
            /\ entered' = <<v, i>>
            /\ IF stop = "handler"
               THEN /\ step' = step /\ outcome' = "interrupted" /\ nextSeen' = FALSE
               ELSE /\ step' = ApplyNext(3, merged, stop)
                    /\ outcome' = "ok"
                    /\ nextSeen' = NextRan(merged, stop)
  /\ act' = "ConfirmIDs" /\ resp' = "none"
  /\ reported' = FALSE
  /\ artifact' = NoArt
  /\ UNCHANGED <<lyrics, manual, sent, sentIn, lvars>>

(* Step 1, URL mode: "Extract Vocals".  Failures call st.error (lines 53,  *)
(* 74) except an empty {} upload result, which is silently ignored.         *)
ExtractVocals ==
  /\ step = 1 /\ ~manual
  /\ \E f \in FetchOutcomes, u \in UploadResp, merged \in BOOLEAN, stop \in Stops :
       LET up == upload_audio(u, "voice") IN
       IF stop = "before"
       THEN /\ resp' = "none" /\ outcome' = "interrupted"
            /\ reported' = FALSE /\ nextSeen' = FALSE
            /\ UNCHANGED <<step, voice_id>>
       ELSE IF f = "fail"
       THEN /\ resp' = "fetch_fail"
            /\ UNCHANGED voice_id
            /\ IF stop = "handler"
               THEN /\ outcome' = "interrupted" /\ reported' = FALSE
                    /\ nextSeen' = FALSE /\ step' = step
               ELSE /\ outcome' = "fetch_fail" /\ reported' = TRUE
                    /\ step' = ApplyNext(step, merged, stop)
                    /\ nextSeen' = NextRan(merged, stop)
       ELSE IF up.kind = "raise"
       THEN /\ resp' = u /\ outcome' = "raise"
            /\ reported' = FALSE /\ nextSeen' = FALSE
            /\ UNCHANGED <<step, voice_id>>
       ELSE IF ~Truthy(up)
       THEN /\ resp' = u
            /\ UNCHANGED voice_id
            /\ IF up.kind = "none" /\ stop = "handler"
               THEN /\ outcome' = "interrupted" /\ reported' = FALSE
                    /\ nextSeen' = FALSE /\ step' = step
               ELSE /\ outcome' = "upload_none"
                    /\ reported' = (up.kind = "none")
                    /\ step' = ApplyNext(step, merged, stop)
                    /\ nextSeen' = NextRan(merged, stop)
       ELSE /\ resp' = u
            /\ voice_id' = DictGet(up.body, "voice_id")
            /\ reported' = FALSE
            /\ IF stop = "handler"
               THEN /\ outcome' = "interrupted" /\ nextSeen' = FALSE /\ step' = step
               ELSE /\ outcome' = "ok"
                    /\ step' = ApplyNext(2, merged, stop)
                    /\ nextSeen' = NextRan(merged, stop)
  /\ act' = "ExtractVocals"
  /\ artifact' = NoArt
  /\ UNCHANGED <<instrumental_id, lyrics, manual, sent, sentIn, entered, lvars>>

(* Step 1 or Step 2: "Next Step". *)
NextStep ==
  /\ step \in {1, 2}
  /\ step' = Advance(step)
  /\ nextSeen' = TRUE
  /\ act' = "NextStep" /\ resp' = "none" /\ outcome' = "ok"
  /\ reported' = FALSE
  /\ artifact' = NoArt
  /\ UNCHANGED <<voice_id, instrumental_id, lyrics, manual, sent, sentIn, entered, lvars>>

(* Variant that also advances to Step 3 after a successful upload. *)
UploadInstrumentalMut ==
  /\ step = 2
  /\ \E f \in FetchOutcomes, u \in UploadResp :
       LET up == upload_audio(u, "song") IN
       IF f = "fail"
       THEN /\ resp' = "fetch_fail" /\ outcome' = "fetch_fail" /\ reported' = TRUE
            /\ UNCHANGED <<step, instrumental_id>>
       ELSE IF up.kind = "raise"
       THEN /\ resp' = u /\ outcome' = "raise" /\ reported' = FALSE
            /\ UNCHANGED <<step, instrumental_id>>
       ELSE IF ~Truthy(up)
       THEN /\ resp' = u /\ outcome' = "upload_none" /\ reported' = TRUE
            /\ UNCHANGED <<step, instrumental_id>>
       ELSE /\ resp' = u /\ outcome' = "ok" /\ reported' = FALSE
            /\ instrumental_id' = DictGet(up.body, "instrumental_id")
            /\ step' = 3
  /\ nextSeen' = FALSE
  /\ act' = "UploadInstrumental"
  /\ artifact' = NoArt
  /\ UNCHANGED <<voice_id, lyrics, manual, sent, sentIn, entered, lvars>>

(* Step 2: "Upload Instrumental".  Every non-raising failure is reported    *)
(* (lines 53, 74, 199, 201).                                                *)
UploadInstrumental ==
  /\ step = 2
  /\ \E f \in FetchOutcomes, u \in UploadResp, merged \in BOOLEAN, stop \in Stops :
       LET up == upload_audio(u, "song") IN
       IF stop = "before"
       THEN /\ resp' = "none" /\ outcome' = "interrupted"
            /\ reported' = FALSE /\ nextSeen' = FALSE
            /\ UNCHANGED <<step, instrumental_id>>
       ELSE IF up.kind = "raise" /\ f = "ok"
       THEN /\ resp' = u /\ outcome' = "raise"
            /\ reported' = FALSE /\ nextSeen' = FALSE
            /\ UNCHANGED <<step, instrumental_id>>
       ELSE IF f = "fail" \/ ~Truthy(up)
       THEN /\ resp' = IF f = "fail" THEN "fetch_fail" ELSE u
            /\ UNCHANGED instrumental_id
            /\ IF stop = "handler"
               THEN /\ outcome' = "interrupted" /\ reported' = FALSE
                    /\ nextSeen' = FALSE /\ step' = step
               ELSE /\ outcome' = IF f = "fail" THEN "fetch_fail" ELSE "upload_none"
                    /\ reported' = TRUE
                    /\ step' = ApplyNext(step, merged, stop)
                    /\ nextSeen' = NextRan(merged, stop)
       ELSE /\ resp' = u
            /\ instrumental_id' = DictGet(up.body, "instrumental_id")
            /\ reported' = FALSE
            /\ IF stop = "handler"
               THEN /\ outcome' = "interrupted" /\ nextSeen' = FALSE /\ step' = step
               ELSE /\ outcome' = "ok"
                    /\ step' = ApplyNext(step, merged, stop)
                    /\ nextSeen' = NextRan(merged, stop)
  /\ act' = "UploadInstrumental"
  /\ artifact' = NoArt
  /\ UNCHANGED <<voice_id, lyrics, manual, sent, sentIn, entered, lvars>>

(* Step 3: "Generate AI Cover" with the text-area lyrics and output format. *)
(* Step 3 renders no "Next Step" button, so no Next Step increment.         *)
GenerateCover ==
  /\ step = 3
  /\ \E txt \in LyricsInputs, fmt \in OutputFormats, r \in GenResp, stop \in {"none", "before", "handler"} :
       LET fl == format_lyrics_for_minimax(txt)
           res == generate_music(fl, r)
       IN IF stop = "before"
          THEN /\ resp' = "none" /\ outcome' = "interrupted"
               /\ reported' = FALSE /\ artifact' = NoArt
               /\ UNCHANGED <<sent, sentIn>>
          ELSE
          /\ IF GenSends(fl)
             THEN /\ sent' = GenPayload(voice_id, instrumental_id, fl)
                  /\ sentIn' = txt
             ELSE UNCHANGED <<sent, sentIn>>
          /\ resp' = r
          \* st.error (failure) or st.audio (success) is the next rerun point
          /\ outcome' = IF res # "raise" /\ stop = "handler" THEN "interrupted" ELSE res
          /\ reported' = (res = "none" /\ stop = "none")
          /\ artifact' = IF res = "bytes" /\ stop = "none"
                         THEN [fmt |-> fmt, suffix |-> "." \o fmt,
                               mime |-> get_binary_file_downloader_html_mime(fmt)]
                         ELSE NoArt
  /\ nextSeen' = FALSE
  /\ act' = "GenerateCover"
  /\ UNCHANGED <<step, voice_id, instrumental_id, lyrics, manual, entered, lvars>>

Next ==
  \/ ToggleManual
  \/ ConfirmIDs
  \/ ExtractVocals
  \/ NextStep
  \/ UploadInstrumental
  \/ GenerateCover

Spec == Init /\ [][Next]_vars

(* ---------------- format_lyrics_for_minimax on bounded inputs ---------------- *)

MaxLyricsLen == 4
LyricsAlphabet == {"a", "\f", " ", "\n"}
LyricsTexts == UNION {[1..n -> LyricsAlphabet] : n \in 0..MaxLyricsLen}

LInit ==
  /\ WInit
  /\ ltext \in LyricsTexts
  /\ lout = <<>>
  /\ ldone = FALSE

FormatLyrics ==
  /\ ~ldone
  /\ lout' = format_lyrics_for_minimax(ltext)
  /\ ldone' = TRUE
  /\ UNCHANGED <<wvars, ltext>>

LyricsNext == FormatLyrics

LyricsSpec == LInit /\ [][LyricsNext]_vars

(* ================= claims ================= *)

(* C1: the generation request is only sent when voice_id and instrumental_id *)
(* are both non-null and the user's lyrics are non-blank.                    *)
C1_GenerationGuard ==
  sent # NoReq =>
    /\ sent.refer_voice # NULL
    /\ sent.refer_instrumental # NULL
    /\ PyStrip(sentIn) # <<>>

C3_ConfirmIDs ==
  [][act' = "ConfirmIDs" =>
       /\ step = 1 /\ step' = 3
       /\ voice_id' = entered'[1]
       /\ instrumental_id' = entered'[2]
       /\ lyrics' = lyrics ]_vars

(* C4 (original): a failed fetch or upload (non-2xx / network error) is     *)
(* reported and leaves step and both ids unchanged; a failed generation      *)
(* leaves the step at 3.                                                     *)
C4_FailureReportedNoChange ==
  [][ /\ ((act' \in {"ExtractVocals", "UploadInstrumental"}
            /\ resp' \in {"fetch_fail", "http_err", "net_err"})
           => (reported' /\ UNCHANGED <<step, voice_id, instrumental_id>>))
      /\ ((act' = "GenerateCover" /\ outcome' # "bytes") => (step = 3 /\ step' = 3)) ]_vars

(* C4 (amended): a failed fetch or upload leaves both ids unchanged and is  *)
(* reported by st.error unless a rerun ends the run first; the step is       *)
(* unchanged unless a Next Step press was merged into the run, which then    *)
(* advances it by one; a failed generation leaves the step at 3.             *)
C4_FailureNoChange ==
  [][ /\ ((act' \in {"ExtractVocals", "UploadInstrumental"}
            /\ resp' \in {"fetch_fail", "http_err", "net_err"})
           => /\ UNCHANGED <<voice_id, instrumental_id>>
              /\ (reported' \/ outcome' = "interrupted")
              /\ step' = IF nextSeen' THEN step + 1 ELSE step)
      /\ ((act' = "GenerateCover" /\ outcome' # "bytes") => (step = 3 /\ step' = 3)) ]_vars

C4_Witness ==
  act = "UploadInstrumental" /\ outcome = "upload_none" /\ resp = "http_err" /\ reported

(* C5: a 2xx upload response without the id field obtains no id: it does  *)
(* not set voice_id / instrumental_id to null and does not advance step.  *)
C5_NoIdNoChange ==
  [][(act' \in {"ExtractVocals", "UploadInstrumental"} /\ resp' \in {"ok_noid", "ok_empty"})
       => UNCHANGED <<step, voice_id, instrumental_id>>]_vars

(* C6: no user action raises an exception past the controller. *)
C6_NoException == outcome # "raise"

(* C7: format_lyrics_for_minimax(t) = "##" + the non-blank lines of t,    *)
(* each stripped, joined by newline + "##"; with a non-blank line the      *)
(* output starts and ends with "##" and has no blank line; otherwise it   *)
(* is "####".                                                             *)
C7_FormatLyrics ==
  ldone =>
    LET kept == SelectSeq(SplitNL(ltext), NonBlank)
        outLines == SplitNL(lout)
    IN /\ lout = Sentinel \o JoinNL(StripEach(kept)) \o Sentinel
       /\ kept # <<>> =>
            /\ SubSeq(lout, 1, 2) = Sentinel
            /\ SubSeq(lout, Len(lout) - 1, Len(lout)) = Sentinel
            /\ \A i \in 1..Len(outLines) : NonBlank(outLines[i])
       /\ kept = <<>> => lout = <<"#", "#", "#", "#">>

C7_Witness ==
  /\ ldone
  /\ SelectSeq(SplitNL(ltext), NonBlank) # <<>>
  /\ Len(SelectSeq(SplitNL(ltext), NonBlank)) < Len(SplitNL(ltext))

(* C8: with voice_id v1, instrumental_id i1 and lyrics "line one\nline two" *)
(* the request payload is exactly the documented one.                     *)
C8_Payload ==
  (sent # NoReq /\ sent.refer_voice = "v1" /\ sent.refer_instrumental = "i1"
     /\ sentIn = LineOneLineTwo)
  => sent = [refer_voice |-> "v1", refer_instrumental |-> "i1",
             lyrics |-> <<"#","#","l","i","n","e"," ","o","n","e","\n",
                          "l","i","n","e"," ","t","w","o","#","#">>,
             model |-> "music-01", stream |-> FALSE,
             audio_setting |-> [sample_rate |-> 44100, bitrate |-> 256000, format |-> "mp3"]]

C8_Witness ==
  sent # NoReq /\ sent.refer_voice = "v1" /\ sent.refer_instrumental = "i1"
    /\ sentIn = LineOneLineTwo

(* C9: after a successful generation with format f the temp file suffix is *)
(* ".f" and the download MIME type is the one for f.                       *)
C9_ArtifactMime ==
  artifact # NoArt =>
    /\ artifact.suffix = "." \o artifact.fmt
    /\ IF artifact.fmt = "mp3" THEN artifact.mime = "audio/mp3"
       ELSE artifact.mime \in {"audio/wav", "audio/x-wav", "audio/wave"}

(* C10: step is always in {1, 2, 3} and never decreases. *)
C10_StepMonotone ==
  [](step \in {1, 2, 3}) /\ [][step' >= step]_vars

====
